---- MODULE Spec2Model ----
(***************************************************************************)
(* Model of the epochalyst pipeline artifact cache:                        *)
(*   - TransformationBlock.transform   (transformation_block.py)           *)
(*   - CacheFullBlock.transform        (dask_array/cache_full_block.py)    *)
(*   - CustomApplyOne, CustomSequential (augmentation/utils.py)            *)
(* The key/value cache used by TransformationBlock and the directory tree  *)
(* used by CacheFullBlock are separate parts of the state.                 *)
(***************************************************************************)
EXTENDS Integers, Sequences, FiniteSets, TLC

VARIABLES cache, tb, tev, fs, cfb, cev, handles, hist, aug

vars == <<cache, tb, tev, fs, cfb, cev, handles, hist, aug>>

----------------------------------------------------------------------------
(* Bounds *)

\* arrays have 1..MaxRows rows
MaxRows == 2
\* a fresh input handle has a graph of 1..MaxDepth layers
MaxDepth == 2
\* at most MaxFailures stores fail at one location
MaxFailures == 1
\* x_transforms and xy_transforms have 0..MaxLen entries each
MaxLen == 2

----------------------------------------------------------------------------
(* Arrays, chunk layouts and lazy handles *)

RECURSIVE SumSeq(_)
SumSeq(s) == IF s = <<>> THEN 0 ELSE s[1] + SumSeq(Tail(s))

\* all ways of cutting an axis of length n into consecutive chunks
Chunkings(n) ==
    { s \in UNION { [1..k -> 1..n] : k \in 1..n } : SumSeq(s) = n }

\* fresh input arrays are generated from these seeds
Seeds == {0, 1}

Modulus == Cardinality(Seeds)

Element(s, r, c) == (s + r + c) % Modulus

Matrix(s, R, C) == [r \in 1..R |-> [c \in 1..C |-> Element(s, r, c)]]

\* an elementwise operation a pipeline applies on top of a handle
Op(v) == (v + 1) % Modulus

RECURSIVE OpN(_, _)
OpN(v, n) == IF n = 0 THEN v ELSE OpN(Op(v), n - 1)

MapMatrix(m, n) == [r \in 1..Len(m) |-> [c \in 1..Len(m[r]) |-> OpN(m[r][c], n)]]

\* Python's None for a handle
NoHandle ==
    [kind |-> "none", path |-> "", data |-> <<>>, chunks |-> <<>>,
     ops |-> 0, depth |-> 0]

\* a dask array built in memory: data is what evaluating its graph yields
MemHandle(m, rc, cc, d) ==
    [kind |-> "mem", path |-> "", data |-> m, chunks |-> <<rc, cc>>,
     ops |-> 0, depth |-> d]

\* the layouts of the column axis: two columns, in one chunk or in two
ColLayouts == {<<2>>, <<1, 1>>}

FreshInputs ==
    UNION { { MemHandle(Matrix(s, R, SumSeq(cc)), rc, cc, d) :
                s \in Seeds, rc \in Chunkings(R), cc \in ColLayouts,
                d \in 1..MaxDepth } : R \in 1..MaxRows }

\* the fresh inputs whose graph is a single layer and whose columns are
\* not partitioned
PlainInputs ==
    { X \in FreshInputs : X.depth = 1 /\ Len(X.chunks[2]) = 1 }

----------------------------------------------------------------------------
(* The directory tree used by CacheFullBlock *)

DataDirs == {"D1", "D2"}

\* data_path as given to the dataclass: None is <<>>, a string s is <<s>>
DataPaths == {<<>>, <<"">>} \cup { <<d>> : d \in DataDirs }

NoFiles == [i \in 1..MaxRows |-> <<>>]

\* a path at which nothing exists
NoDir == [dir |-> FALSE, info |-> <<>>, files |-> NoFiles]

\* an existing directory with nothing in it
EmptyDir == [dir |-> TRUE, info |-> <<>>, files |-> NoFiles]

\* os.path.exists(path)
PathExists(tree, d) == tree[d].dir

\* a chunk-stack directory is complete when its info file and every chunk
\* file the info file announces are present
Complete(e) ==
    /\ e.dir
    /\ e.info # <<>>
    /\ \A i \in 1..Len(e.info[1]) : e.files[i] # <<>>

\* first row of chunk i in a layout rc along axis 0
ChunkStart(rc, i) == 1 + SumSeq(SubSeq(rc, 1, i - 1))

\* rows of chunk i of matrix m under layout rc (all columns)
ChunkRows(m, rc, i) ==
    SubSeq(m, ChunkStart(rc, i), ChunkStart(rc, i) + rc[i] - 1)

RECURSIVE ConcatFiles(_, _)
ConcatFiles(files, n) ==
    IF n = 0 THEN <<>> ELSE ConcatFiles(files, n - 1) \o files[n]

\* da.from_npy_stack(dirname): reads the info file and builds a one-layer
\* graph whose tasks np.load the chunk files when evaluated
from_npy_stack(tree, d) ==
    [kind |-> "read", path |-> d, data |-> <<>>, chunks |-> tree[d].info,
     ops |-> 0, depth |-> 1]

\* whether every file a handle would read is present
Readable(tree, h) ==
    \/ h.kind = "mem"
    \/ /\ h.kind = "read"
       /\ tree[h.path].dir
       /\ \A i \in 1..Len(h.chunks[1]) : tree[h.path].files[i] # <<>>

\* the data a handle evaluates to against the current directory tree
Eval(tree, h) ==
    MapMatrix(IF h.kind = "mem"
              THEN h.data
              ELSE ConcatFiles(tree[h.path].files, Len(h.chunks[1])),
              h.ops)

\* a further elementwise operation stacked on a handle (one more layer)
Derive(h) == [h EXCEPT !.ops = h.ops + 1, !.depth = h.depth + 1]

\* the layout da.to_npy_stack(dirname, x, axis=0) writes: x rechunked so
\* that only axis 0 stays partitioned
StackChunks(x) == <<x.chunks[1], <<SumSeq(x.chunks[2])>>>>

----------------------------------------------------------------------------
(* The key/value cache used by TransformationBlock *)

\* the configured steps; get_hash is a function of the configuration only
Blocks == {"A", "B"}

get_hash(b) == IF b = "A" THEN "hashA" ELSE "hashB"

\* values a payload or a result can take
Payloads == {0, 1}

OutputTypes == {"dask_array", "numpy_array"}

\* the encoding that goes with each logical type
StorageTypeOf(ty) == IF ty = "dask_array" THEN ".npy_stack" ELSE ".npy"

\* storage_path: unset is <<>>, a string s is <<s>>
StoragePaths == {<<>>, <<"">>, <<"P1">>}

\* cache_args = {} : caching not requested
EmptyArgs ==
    [nonempty |-> FALSE, output_data_type |-> "", storage_type |-> "",
     storage_path |-> <<>>]

CacheArgs ==
    {EmptyArgs} \cup
    { [nonempty |-> TRUE, output_data_type |-> ty,
       storage_type |-> StorageTypeOf(ty), storage_path |-> sp] :
        ty \in OutputTypes, sp \in StoragePaths }

\* where an entry lives: key, directory and encoding
Locations ==
    { <<get_hash(b), "P1", StorageTypeOf(ty)>> :
        b \in Blocks, ty \in OutputTypes }

Loc(name, ca) == <<name, ca.storage_path[1], ca.storage_type>>

NoArtifact == [kind |-> "none", val |-> 0]

\* a value held in memory (for dask_array: a handle over an in-memory graph)
InMemory(v) == [kind |-> "mem", val |-> v]

\* a lazy handle that reads persisted chunks
ReadHandle(v) == [kind |-> "read", val |-> v]

\* an entry of the log of the current call: what was done, at which
\* location, with which artifact, and (for "exists") what was answered
NoEvent(op) == [op |-> op, loc |-> <<>>, val |-> NoArtifact, found |-> FALSE]

\* descriptor.path empty or unset
BadPath(ca) == ca.storage_path = <<>> \/ ca.storage_path[1] = ""

\* _Cacher._cache_exists: true iff an entry is present at the location
_cache_exists(store, name, ca) == store[Loc(name, ca)] # <<>>

\* _Cacher._get_cache: the stored artifact; a chunk stack is loaded lazily
_get_cache(store, name, ca) ==
    IF ca.output_data_type = "dask_array"
    THEN ReadHandle(store[Loc(name, ca)][1])
    ELSE InMemory(store[Loc(name, ca)][1])

\* _Cacher._store_cache: writes the artifact at the location
_store_cache(store, name, data, ca) ==
    [store EXCEPT ![Loc(name, ca)] = <<data.val>>]

----------------------------------------------------------------------------
(* TransformationBlock.transform, one step per statement *)

NoEntries == [l \in Locations |-> <<>>]

\* what has happened at a location over all the calls so far: how many
\* times custom_transform ran in a call keyed there, how many stores were
\* made there, and the input of the call that made the last store
NoHistory ==
    [l \in Locations |-> [custom |-> 0, store |-> 0, input |-> <<>>]]

\* cache0 is the cache as it was when the call was entered and arg the
\* data as it was passed; data is the local variable, rebound at line 84
TbIdle ==
    [pc |-> "idle", block |-> "", data |-> NoArtifact,
     cache_args |-> EmptyArgs, ret |-> NoArtifact, err |-> "",
     cache0 |-> NoEntries, arg |-> NoArtifact]

\* entry of transform(self, data, cache_args) on block b
TB_Call(b, d, ca) ==
    /\ tb.pc = "idle"
    /\ tb' = [TbIdle EXCEPT !.pc = "l79", !.block = b, !.data = InMemory(d),
                            !.cache_args = ca, !.cache0 = cache,
                            !.arg = InMemory(d)]
    /\ tev' = <<>>
    /\ UNCHANGED <<cache, fs, cfb, cev, handles, hist, aug>>

\* a variant of TB_CacheCheck that always takes the miss branch
TB_CacheCheck_AlwaysMiss ==
    LET ca == tb.cache_args
        name == get_hash(tb.block) IN
    /\ tb.pc = "l79"
    /\ IF ~ca.nonempty
       THEN /\ tb' = [tb EXCEPT !.pc = "l84"]
            /\ tev' = tev
       ELSE IF BadPath(ca)
       THEN /\ tb' = [tb EXCEPT !.pc = "raised", !.err = "ConfigurationError"]
            /\ tev' = tev
       ELSE /\ tb' = [tb EXCEPT !.pc = "l84"]
            /\ tev' = Append(tev, [NoEvent("exists") EXCEPT
                                      !.loc = Loc(name, ca),
                                      !.found = _cache_exists(cache, name, ca)])
    /\ UNCHANGED <<cache, fs, cfb, cev, handles, hist, aug>>

\* a variant of TB_CacheCheck that computes before it validates the path
TB_CacheCheck_LateValidation ==
    LET ca == tb.cache_args
        name == get_hash(tb.block) IN
    /\ tb.pc = "l79"
    /\ IF ~ca.nonempty \/ BadPath(ca)
       THEN /\ tb' = [tb EXCEPT !.pc = "l84"]
            /\ tev' = tev
       ELSE /\ tb' = [tb EXCEPT !.pc = IF _cache_exists(cache, name, ca)
                                       THEN "l82" ELSE "l84"]
            /\ tev' = Append(tev, [NoEvent("exists") EXCEPT
                                      !.loc = Loc(name, ca),
                                      !.found = _cache_exists(cache, name, ca)])
    /\ UNCHANGED <<cache, fs, cfb, cev, handles, hist, aug>>

\* a variant of TB_CacheCheck whose key also depends on the input data
TB_CacheCheck_KeyedOnInput ==
    LET ca == tb.cache_args
        name == IF tb.data.val = 0
                THEN get_hash(tb.block)
                ELSE get_hash(CHOOSE b \in Blocks : b # tb.block) IN
    /\ tb.pc = "l79"
    /\ IF ~ca.nonempty
       THEN /\ tb' = [tb EXCEPT !.pc = "l84"]
            /\ tev' = tev
       ELSE IF BadPath(ca)
       THEN /\ tb' = [tb EXCEPT !.pc = "raised", !.err = "ConfigurationError"]
            /\ tev' = tev
       ELSE /\ tb' = [tb EXCEPT !.pc = IF _cache_exists(cache, name, ca)
                                       THEN "l82" ELSE "l84"]
            /\ tev' = Append(tev, [NoEvent("exists") EXCEPT
                                      !.loc = Loc(name, ca),
                                      !.found = _cache_exists(cache, name, ca)])
    /\ UNCHANGED <<cache, fs, cfb, cev, handles, hist, aug>>

\* a variant of TB_CacheCheck without the `cache_args and` guard
TB_CacheCheck_NoGuard ==
    LET ca == tb.cache_args
        name == get_hash(tb.block) IN
    /\ tb.pc = "l79"
    /\ IF ~ca.nonempty
       THEN /\ tb' = [tb EXCEPT !.pc = "l84"]
            /\ tev' = Append(tev, NoEvent("exists"))
       ELSE IF BadPath(ca)
       THEN /\ tb' = [tb EXCEPT !.pc = "raised", !.err = "ConfigurationError"]
            /\ tev' = tev
       ELSE /\ tb' = [tb EXCEPT !.pc = IF _cache_exists(cache, name, ca)
                                       THEN "l82" ELSE "l84"]
            /\ tev' = Append(tev, [NoEvent("exists") EXCEPT
                                      !.loc = Loc(name, ca),
                                      !.found = _cache_exists(cache, name, ca)])
    /\ UNCHANGED <<cache, fs, cfb, cev, handles, hist, aug>>

\* line 79-81: `cache_args and self._cache_exists(...)`; the existence
\* check refuses a descriptor without a path before it looks anything up
TB_CacheCheck ==
    LET ca == tb.cache_args
        name == get_hash(tb.block) IN
    /\ tb.pc = "l79"
    /\ IF ~ca.nonempty
       THEN /\ tb' = [tb EXCEPT !.pc = "l84"]
            /\ tev' = tev
       ELSE IF BadPath(ca)
       THEN /\ tb' = [tb EXCEPT !.pc = "raised", !.err = "ConfigurationError"]
            /\ tev' = tev
       ELSE /\ tb' = [tb EXCEPT !.pc = IF _cache_exists(cache, name, ca)
                                       THEN "l82" ELSE "l84"]
            /\ tev' = Append(tev, [NoEvent("exists") EXCEPT
                                      !.loc = Loc(name, ca),
                                      !.found = _cache_exists(cache, name, ca)])
    /\ UNCHANGED <<cache, fs, cfb, cev, handles, hist, aug>>

\* a variant of TB_GetCache that loads but does not return
TB_GetCache_FallThrough ==
    LET ca == tb.cache_args
        name == get_hash(tb.block) IN
    /\ tb.pc = "l82"
    /\ tb' = [tb EXCEPT !.pc = "l84"]
    /\ tev' = Append(tev, [NoEvent("load") EXCEPT
                              !.loc = Loc(name, ca),
                              !.val = _get_cache(cache, name, ca)])
    /\ UNCHANGED <<cache, fs, cfb, cev, handles, hist, aug>>

\* line 82
TB_GetCache ==
    LET ca == tb.cache_args
        name == get_hash(tb.block) IN
    /\ tb.pc = "l82"
    /\ tb' = [tb EXCEPT !.pc = "done", !.ret = _get_cache(cache, name, ca)]
    /\ tev' = Append(tev, [NoEvent("load") EXCEPT
                              !.loc = Loc(name, ca),
                              !.val = _get_cache(cache, name, ca)])
    /\ UNCHANGED <<cache, fs, cfb, cev, handles, hist, aug>>

\* the history after custom_transform has run in a call keyed at a location
Computed(name, ca) ==
    IF ca.nonempty
    THEN [hist EXCEPT ![Loc(name, ca)].custom = @ + 1]
    ELSE hist

\* a variant of TB_CustomTransform that drops what custom_transform returns
TB_CustomTransform_DropResult(v) ==
    /\ tb.pc = "l84"
    /\ tb' = [tb EXCEPT !.pc = "l86"]
    /\ tev' = Append(tev, [NoEvent("custom") EXCEPT !.val = InMemory(v)])
    /\ hist' = Computed(get_hash(tb.block), tb.cache_args)
    /\ UNCHANGED <<cache, fs, cfb, cev, handles, aug>>

\* line 84: the user's custom_transform is opaque; v is what it returns
TB_CustomTransform(v) ==
    /\ tb.pc = "l84"
    /\ tb' = [tb EXCEPT !.pc = "l86", !.data = InMemory(v)]
    /\ tev' = Append(tev, [NoEvent("custom") EXCEPT !.val = InMemory(v)])
    /\ hist' = Computed(get_hash(tb.block), tb.cache_args)
    /\ UNCHANGED <<cache, fs, cfb, cev, handles, aug>>

\* a variant of TB_StoreCache that stores nothing
TB_StoreCache_Skip ==
    /\ tb.pc = "l86"
    /\ tb' = [tb EXCEPT !.pc = "l90"]
    /\ UNCHANGED <<cache, tev, fs, cfb, cev, handles, hist, aug>>

\* line 86-88: `self._store_cache(...) if cache_args else None`
TB_StoreCache ==
    LET ca == tb.cache_args
        name == get_hash(tb.block) IN
    /\ tb.pc = "l86"
    /\ IF ~ca.nonempty
       THEN /\ tb' = [tb EXCEPT !.pc = "l90"]
            /\ UNCHANGED <<cache, tev, hist>>
       ELSE IF BadPath(ca)
       THEN /\ tb' = [tb EXCEPT !.pc = "raised", !.err = "ConfigurationError"]
            /\ UNCHANGED <<cache, tev, hist>>
       ELSE /\ tb' = [tb EXCEPT !.pc = "l90"]
            /\ cache' = _store_cache(cache, name, tb.data, ca)
            /\ tev' = Append(tev, [NoEvent("store") EXCEPT
                                      !.loc = Loc(name, ca), !.val = tb.data])
            /\ hist' = [hist EXCEPT ![Loc(name, ca)].store = @ + 1,
                                    ![Loc(name, ca)].input = <<tb.arg.val>>]
    /\ UNCHANGED <<fs, cfb, cev, handles, aug>>

\* a variant of TB_ReturnData that returns a handle on the stored entry
\* when a chunked array was cached
TB_ReturnData_Rebound ==
    /\ tb.pc = "l90"
    /\ tb' = [tb EXCEPT !.pc = "done",
                        !.ret = IF /\ tb.cache_args.nonempty
                                   /\ tb.cache_args.output_data_type = "dask_array"
                                THEN ReadHandle(tb.data.val) ELSE tb.data]
    /\ UNCHANGED <<cache, tev, fs, cfb, cev, handles, hist, aug>>

\* line 90
TB_ReturnData ==
    /\ tb.pc = "l90"
    /\ tb' = [tb EXCEPT !.pc = "done", !.ret = tb.data]
    /\ UNCHANGED <<cache, tev, fs, cfb, cev, handles, hist, aug>>

\* the caller takes the result (or the exception) and the frame is gone
TB_Return ==
    /\ tb.pc \in {"done", "raised"}
    /\ tb' = TbIdle
    /\ tev' = <<>>
    /\ UNCHANGED <<cache, fs, cfb, cev, handles, hist, aug>>

\* the statements of a call that has been entered
TB_Step ==
    \/ TB_CacheCheck
    \/ TB_GetCache
    \/ \E v \in Payloads : TB_CustomTransform(v)
    \/ TB_StoreCache
    \/ TB_ReturnData
    \/ TB_Return

NextTB ==
    \/ \E b \in Blocks : \E d \in Payloads : \E ca \in CacheArgs :
           TB_Call(b, d, ca)
    \/ TB_Step

\* a variant of TB_GetCacheFails that falls back to computing
TB_GetCacheFails_Recompute ==
    /\ tb.pc = "l82"
    /\ tb' = [tb EXCEPT !.pc = "l84"]
    /\ tev' = Append(tev, [NoEvent("load_failed") EXCEPT
                              !.loc = Loc(get_hash(tb.block), tb.cache_args)])
    /\ UNCHANGED <<cache, fs, cfb, cev, handles, hist, aug>>

\* line 82 when _get_cache raises: transform has no handler, the exception
\* leaves the call
TB_GetCacheFails ==
    /\ tb.pc = "l82"
    /\ tb' = [tb EXCEPT !.pc = "raised", !.err = "StorageIOError"]
    /\ tev' = Append(tev, [NoEvent("load_failed") EXCEPT
                              !.loc = Loc(get_hash(tb.block), tb.cache_args)])
    /\ UNCHANGED <<cache, fs, cfb, cev, handles, hist, aug>>

\* line 86-88 when _store_cache raises: transform has no handler, the
\* exception leaves the call before line 90 and no entry is left
TB_StoreCacheFails ==
    LET ca == tb.cache_args
        name == get_hash(tb.block) IN
    /\ tb.pc = "l86"
    /\ ca.nonempty /\ ~BadPath(ca)
    /\ hist[Loc(name, ca)].custom <= MaxFailures
    /\ tb' = [tb EXCEPT !.pc = "raised", !.err = "StorageIOError"]
    /\ tev' = Append(tev, [NoEvent("store_failed") EXCEPT
                              !.loc = Loc(name, ca), !.val = tb.data])
    /\ UNCHANGED <<cache, fs, cfb, cev, handles, hist, aug>>

\* caching not requested, or requested for a chunked array
ChunkedArgs ==
    { ca \in CacheArgs : ~ca.nonempty \/ ca.output_data_type = "dask_array" }

\* calls on chunked arrays in which a load or a store may fail
NextTBFail ==
    \/ \E b \in Blocks : \E d \in Payloads : \E ca \in ChunkedArgs :
           TB_Call(b, d, ca)
    \/ TB_Step
    \/ TB_GetCacheFails
    \/ TB_StoreCacheFails

----------------------------------------------------------------------------
(* CacheFullBlock.transform, one step per statement, for each caller *)

Callers == {"c1", "c2"}

\* `not self.data_path`
Falsy(p) == p = <<>> \/ p[1] = ""

\* BaseCacheBlock._data_exists: a handle reading the stored chunks when a
\* complete chunk stack is present at data_path, None otherwise
_data_exists(tree, d, X) ==
    IF Complete(tree[d]) THEN from_npy_stack(tree, d) ELSE NoHandle

NoTree == [d \in DataDirs |-> NoDir]

\* arg is X as it was passed and fs0 the directory tree as it was when the
\* call was entered; X is the local variable, rebound at line 41
CfbIdle ==
    [pc |-> "idle", X |-> NoHandle, data_path |-> <<>>, array |-> NoHandle,
     mk |-> FALSE, pending |-> {}, ret |-> NoHandle, err |-> "",
     arg |-> NoHandle, fs0 |-> NoTree]

\* a handle an earlier call returned, with one more operation stacked on it
ChainedInputs ==
    { Derive(h) : h \in { g \in handles : g.depth < MaxDepth } }

CFB_Raise(c, e) == [cfb EXCEPT ![c].pc = "raised", ![c].err = e]

\* entry of transform(self, X) on a block whose data_path is p
CFB_Call(c, X, p) ==
    /\ cfb[c].pc = "idle"
    /\ cfb' = [cfb EXCEPT ![c] = [CfbIdle EXCEPT !.pc = "l25", !.X = X,
                                                 !.data_path = p,
                                                 !.arg = X, !.fs0 = fs]]
    /\ cev' = [cev EXCEPT ![c] = <<>>]
    /\ UNCHANGED <<cache, tb, tev, fs, handles, hist, aug>>

\* a variant of CFB_CheckPath without the data_path check
CFB_CheckPath_NoCheck(c) ==
    /\ cfb[c].pc = "l25"
    /\ cfb' = [cfb EXCEPT ![c].pc = "l29"]
    /\ UNCHANGED <<cache, tb, tev, fs, cev, handles, hist, aug>>

\* line 25-26
CFB_CheckPath(c) ==
    /\ cfb[c].pc = "l25"
    /\ cfb' = IF Falsy(cfb[c].data_path)
              THEN CFB_Raise(c, "CachePipelineError")
              ELSE [cfb EXCEPT ![c].pc = "l29"]
    /\ UNCHANGED <<cache, tb, tev, fs, cev, handles, hist, aug>>

\* line 29
CFB_DataExists(c) ==
    /\ cfb[c].pc = "l29"
    /\ cfb' = [cfb EXCEPT ![c].pc = "l32",
                          ![c].array = _data_exists(fs, cfb[c].data_path[1],
                                                    cfb[c].X)]
    /\ cev' = [cev EXCEPT ![c] = Append(@, "exists_check")]
    /\ UNCHANGED <<cache, tb, tev, fs, handles, hist, aug>>

\* a variant of CFB_Branch that never returns the stored array
CFB_Branch_NoReturn(c) ==
    /\ cfb[c].pc = "l32"
    /\ cfb' = [cfb EXCEPT ![c].pc = "l36"]
    /\ UNCHANGED <<cache, tb, tev, fs, cev, handles, hist, aug>>

\* line 32-33
CFB_Branch(c) ==
    /\ cfb[c].pc = "l32"
    /\ cfb' = IF cfb[c].array # NoHandle
              THEN [cfb EXCEPT ![c].pc = "done", ![c].ret = cfb[c].array]
              ELSE [cfb EXCEPT ![c].pc = "l36"]
    /\ UNCHANGED <<cache, tb, tev, fs, cev, handles, hist, aug>>

\* line 36
CFB_TestPath(c) ==
    /\ cfb[c].pc = "l36"
    /\ cfb' = IF ~PathExists(fs, cfb[c].data_path[1])
              THEN [cfb EXCEPT ![c].pc = "l37", ![c].mk = TRUE]
              ELSE [cfb EXCEPT ![c].pc = "l38"]
    /\ UNCHANGED <<cache, tb, tev, fs, cev, handles, hist, aug>>

\* line 37: os.makedirs without exist_ok raises when the path exists
CFB_Makedirs(c) ==
    LET d == cfb[c].data_path[1] IN
    /\ cfb[c].pc = "l37"
    /\ IF PathExists(fs, d)
       THEN /\ cfb' = CFB_Raise(c, "FileExistsError")
            /\ UNCHANGED <<fs, cev>>
       ELSE /\ fs' = [fs EXCEPT ![d].dir = TRUE]
            /\ cfb' = [cfb EXCEPT ![c].pc = "l38"]
            /\ cev' = [cev EXCEPT ![c] = Append(@, "makedirs")]
    /\ UNCHANGED <<cache, tb, tev, handles, hist, aug>>

\* line 38, first part of da.to_npy_stack: rechunk, create the directory
\* if it is absent, write the info file, schedule one np.save per chunk
CFB_ToNpyStack(c) ==
    LET d == cfb[c].data_path[1]
        layout == StackChunks(cfb[c].X) IN
    /\ cfb[c].pc = "l38"
    /\ fs' = [fs EXCEPT ![d].dir = TRUE, ![d].info = layout]
    /\ cfb' = [cfb EXCEPT ![c].pc = "l38w",
                          ![c].pending = 1..Len(layout[1])]
    /\ cev' = [cev EXCEPT ![c] = Append(@, "write_info")]
    /\ UNCHANGED <<cache, tb, tev, handles, hist, aug>>

\* a variant of CFB_WriteChunk that saves the first chunk under every name
CFB_WriteChunk_FirstChunk(c, i) ==
    LET d == cfb[c].data_path[1]
        X == cfb[c].X
        layout == StackChunks(X) IN
    /\ cfb[c].pc = "l38w"
    /\ i \in cfb[c].pending
    /\ fs' = [fs EXCEPT ![d].files[i] = ChunkRows(Eval(fs, X), layout[1], 1)]
    /\ cfb' = [cfb EXCEPT ![c].pending = @ \ {i},
                          ![c].pc = IF cfb[c].pending = {i}
                                    THEN "l41" ELSE "l38w"]
    /\ cev' = [cev EXCEPT ![c] = Append(@, "write_chunk")]
    /\ UNCHANGED <<cache, tb, tev, handles, hist, aug>>

\* line 38, the scheduled np.save tasks, in the order the scheduler picks
CFB_WriteChunk(c, i) ==
    LET d == cfb[c].data_path[1]
        X == cfb[c].X
        layout == StackChunks(X) IN
    /\ cfb[c].pc = "l38w"
    /\ i \in cfb[c].pending
    /\ IF Readable(fs, X)
       THEN /\ fs' = [fs EXCEPT ![d].files[i] =
                                   ChunkRows(Eval(fs, X), layout[1], i)]
            /\ cfb' = [cfb EXCEPT ![c].pending = @ \ {i},
                                  ![c].pc = IF cfb[c].pending = {i}
                                            THEN "l41" ELSE "l38w"]
            /\ cev' = [cev EXCEPT ![c] = Append(@, "write_chunk")]
       ELSE /\ cfb' = CFB_Raise(c, "StorageIOError")
            /\ UNCHANGED <<fs, cev>>
    /\ UNCHANGED <<cache, tb, tev, handles, hist, aug>>

\* a variant of CFB_FromNpyStack that returns X as it is
CFB_FromNpyStack_NoRebind(c) ==
    /\ cfb[c].pc = "l41"
    /\ cfb' = [cfb EXCEPT ![c].pc = "done", ![c].ret = cfb[c].X]
    /\ UNCHANGED <<cache, tb, tev, fs, cev, handles, hist, aug>>

\* line 41-43
CFB_FromNpyStack(c) ==
    LET d == cfb[c].data_path[1] IN
    /\ cfb[c].pc = "l41"
    /\ IF fs[d].info # <<>>
       THEN /\ cfb' = [cfb EXCEPT ![c].pc = "done",
                                  ![c].X = from_npy_stack(fs, d),
                                  ![c].ret = from_npy_stack(fs, d)]
            /\ cev' = [cev EXCEPT ![c] = Append(@, "from_npy_stack")]
       ELSE /\ cfb' = CFB_Raise(c, "StorageIOError")
            /\ UNCHANGED cev
    /\ UNCHANGED <<cache, tb, tev, fs, handles, hist, aug>>

\* the caller takes the result (or the exception) and the frame is gone
CFB_Return(c) ==
    /\ cfb[c].pc \in {"done", "raised"}
    /\ handles' = IF cfb[c].pc = "done"
                  THEN handles \cup {cfb[c].ret} ELSE handles
    /\ cfb' = [cfb EXCEPT ![c] = CfbIdle]
    /\ cev' = [cev EXCEPT ![c] = <<>>]
    /\ UNCHANGED <<cache, tb, tev, fs, hist, aug>>

\* the statements of a call that has been entered
CFB_Step ==
    \/ \E c \in Callers : CFB_CheckPath(c)
    \/ \E c \in Callers : CFB_DataExists(c)
    \/ \E c \in Callers : CFB_Branch(c)
    \/ \E c \in Callers : CFB_TestPath(c)
    \/ \E c \in Callers : CFB_Makedirs(c)
    \/ \E c \in Callers : CFB_ToNpyStack(c)
    \/ \E c \in Callers : \E i \in 1..MaxRows : CFB_WriteChunk(c, i)
    \/ \E c \in Callers : CFB_FromNpyStack(c)
    \/ \E c \in Callers : CFB_Return(c)

\* no CacheFullBlock call is in progress
CfbQuiet == \A c \in Callers : cfb[c].pc = "idle"

\* calls made one after another by one caller, on any input
NextCFB ==
    \/ \E X \in FreshInputs \cup ChainedInputs : \E p \in DataPaths :
           CfbQuiet /\ CFB_Call("c1", X, p)
    \/ CFB_Step

----------------------------------------------------------------------------
(* CustomApplyOne and CustomSequential (augmentation/utils.py) *)

\* a transform is an object with a weight p; two entries that are the same
\* record are the same (or an equal) object for Python's `in`
TransformNames == {"f", "g"}
Weights == {0, 1}
Transforms == [name : TransformNames, p : Weights]

NoTransform == [name |-> "", p |-> 0]

\* a list field of the dataclass: None is <<>>, a list s is <<s>>
TransformLists ==
    {<<>>} \cup
    { <<s>> : s \in UNION { [1..k -> Transforms] : k \in 0..MaxLen } }

IsNone(w) == w = <<>>

\* the entries of a list that is not None
Items(w) == w[1]

\* `transform in lst`
Member(t, w) == \E i \in 1..Len(Items(w)) : Items(w)[i] = t

\* torch.tensor(probabilities) divided in place by its sum: the entries
\* are num[i] / den, and are NaN when den is 0
Normalised(ps) == [num |-> ps, den |-> SumSeq(ps)]

\* the indices torch.multinomial(tensor, 1) can return
Drawable(pt) ==
    IF pt.den = 0 THEN {} ELSE { i \in 1..Len(pt.num) : pt.num[i] > 0 }

\* x and y are the terms built so far: the names of the transforms that
\* were applied to the argument, in order; applied is the log of the
\* applications of the current call
AugIdle ==
    [pc |-> "idle", cls |-> "", x_transforms |-> <<>>, xy_transforms |-> <<>>,
     probabilities_tensor |-> Normalised(<<>>), all_transforms |-> <<>>,
     idx |-> 0, transform |-> NoTransform, i |-> 0,
     x |-> <<>>, y |-> <<>>, applied |-> <<>>, ret |-> <<>>, err |-> ""]

Application(t, how) == [t |-> t, how |-> how]

\* CustomApplyOne(x_transforms=xs, xy_transforms=xys): __post_init__,
\* line 41-55; the concatenation at line 55 needs two lists
AO_PostInit(xs, xys) ==
    /\ aug.pc = "idle"
    /\ aug' = IF IsNone(xs) \/ IsNone(xys)
              THEN [AugIdle EXCEPT !.pc = "raised", !.cls = "one",
                                   !.x_transforms = xs, !.xy_transforms = xys,
                                   !.err = "TypeError"]
              ELSE [AugIdle EXCEPT
                       !.pc = "ready", !.cls = "one",
                       !.x_transforms = xs, !.xy_transforms = xys,
                       !.probabilities_tensor =
                           Normalised([k \in 1..Len(Items(xs) \o Items(xys))
                                         |-> (Items(xs) \o Items(xys))[k].p]),
                       !.all_transforms = Items(xs) \o Items(xys)]
    /\ UNCHANGED <<cache, tb, tev, fs, cfb, cev, handles, hist>>

\* line 68-76: the draw; multinomial raises on an empty tensor and on NaN
AO_Select ==
    /\ aug.pc = "ready"
    /\ IF Drawable(aug.probabilities_tensor) = {}
       THEN aug' = [aug EXCEPT !.pc = "raised", !.err = "RuntimeError"]
       ELSE \E k \in Drawable(aug.probabilities_tensor) :
               aug' = [aug EXCEPT !.pc = "l77", !.idx = k,
                                  !.transform = aug.all_transforms[k]]
    /\ UNCHANGED <<cache, tb, tev, fs, cfb, cev, handles, hist>>

\* line 77-78
AO_ApplyX ==
    /\ aug.pc = "l77"
    /\ aug' = IF Member(aug.transform, aug.x_transforms)
              THEN [aug EXCEPT !.pc = "l79",
                               !.x = Append(@, aug.transform.name),
                               !.applied =
                                   Append(@, Application(aug.transform, "x"))]
              ELSE [aug EXCEPT !.pc = "l79"]
    /\ UNCHANGED <<cache, tb, tev, fs, cfb, cev, handles, hist>>

\* line 79-80
AO_ApplyXY ==
    /\ aug.pc = "l79"
    /\ aug' = IF Member(aug.transform, aug.xy_transforms)
              THEN [aug EXCEPT !.pc = "l81",
                               !.x = Append(@, aug.transform.name),
                               !.y = Append(@, aug.transform.name),
                               !.applied =
                                   Append(@, Application(aug.transform, "xy"))]
              ELSE [aug EXCEPT !.pc = "l81"]
    /\ UNCHANGED <<cache, tb, tev, fs, cfb, cev, handles, hist>>

\* line 81
AO_ReturnXY ==
    /\ aug.pc = "l81"
    /\ aug' = [aug EXCEPT !.pc = "done", !.ret = <<aug.x, aug.y>>]
    /\ UNCHANGED <<cache, tb, tev, fs, cfb, cev, handles, hist>>

\* CustomSequential(x_transforms=xs, xy_transforms=xys)(x, y): entry
CS_Call(xs, xys) ==
    /\ aug.pc = "idle"
    /\ aug' = [AugIdle EXCEPT !.pc = "l105", !.cls = "seq",
                              !.x_transforms = xs, !.xy_transforms = xys]
    /\ UNCHANGED <<cache, tb, tev, fs, cfb, cev, handles, hist>>

\* line 105
CS_TestX ==
    /\ aug.pc = "l105"
    /\ aug' = IF IsNone(aug.x_transforms)
              THEN [aug EXCEPT !.pc = "l108"]
              ELSE [aug EXCEPT !.pc = "l106", !.i = 1]
    /\ UNCHANGED <<cache, tb, tev, fs, cfb, cev, handles, hist>>

\* line 106-107: one turn of the loop, or its end
CS_LoopX ==
    /\ aug.pc = "l106"
    /\ aug' = IF aug.i <= Len(Items(aug.x_transforms))
              THEN [aug EXCEPT
                       !.i = @ + 1,
                       !.x = Append(@, Items(aug.x_transforms)[aug.i].name),
                       !.applied =
                           Append(@, Application(Items(aug.x_transforms)[aug.i],
                                                 "x"))]
              ELSE [aug EXCEPT !.pc = "l108", !.i = 0]
    /\ UNCHANGED <<cache, tb, tev, fs, cfb, cev, handles, hist>>

\* line 108
CS_TestXY ==
    /\ aug.pc = "l108"
    /\ aug' = IF IsNone(aug.xy_transforms)
              THEN [aug EXCEPT !.pc = "l111"]
              ELSE [aug EXCEPT !.pc = "l109", !.i = 1]
    /\ UNCHANGED <<cache, tb, tev, fs, cfb, cev, handles, hist>>

\* a variant of CS_LoopXY that rebinds x only
CS_LoopXY_KeepsY ==
    /\ aug.pc = "l109"
    /\ aug' = IF aug.i <= Len(Items(aug.xy_transforms))
              THEN [aug EXCEPT
                       !.i = @ + 1,
                       !.x = Append(@, Items(aug.xy_transforms)[aug.i].name),
                       !.applied =
                           Append(@, Application(Items(aug.xy_transforms)[aug.i],
                                                 "xy"))]
              ELSE [aug EXCEPT !.pc = "l111", !.i = 0]
    /\ UNCHANGED <<cache, tb, tev, fs, cfb, cev, handles, hist>>

\* line 109-110: one turn of the loop, or its end
CS_LoopXY ==
    /\ aug.pc = "l109"
    /\ aug' = IF aug.i <= Len(Items(aug.xy_transforms))
              THEN [aug EXCEPT
                       !.i = @ + 1,
                       !.x = Append(@, Items(aug.xy_transforms)[aug.i].name),
                       !.y = Append(@, Items(aug.xy_transforms)[aug.i].name),
                       !.applied =
                           Append(@, Application(Items(aug.xy_transforms)[aug.i],
                                                 "xy"))]
              ELSE [aug EXCEPT !.pc = "l111", !.i = 0]
    /\ UNCHANGED <<cache, tb, tev, fs, cfb, cev, handles, hist>>

\* line 111
CS_ReturnXY ==
    /\ aug.pc = "l111"
    /\ aug' = [aug EXCEPT !.pc = "done", !.ret = <<aug.x, aug.y>>]
    /\ UNCHANGED <<cache, tb, tev, fs, cfb, cev, handles, hist>>

\* the caller takes the result (or the exception); the object is dropped
Aug_Return ==
    /\ aug.pc \in {"done", "raised"}
    /\ aug' = AugIdle
    /\ UNCHANGED <<cache, tb, tev, fs, cfb, cev, handles, hist>>

NextAug ==
    \/ /\ aug.pc = "idle"
       /\ \E xs \in TransformLists : \E xys \in TransformLists :
              AO_PostInit(xs, xys)
    \/ AO_Select
    \/ AO_ApplyX
    \/ AO_ApplyXY
    \/ AO_ReturnXY
    \/ /\ aug.pc = "idle"
       /\ \E xs \in TransformLists : \E xys \in TransformLists :
              CS_Call(xs, xys)
    \/ CS_TestX
    \/ CS_LoopX
    \/ CS_TestXY
    \/ CS_LoopXY
    \/ CS_ReturnXY
    \/ Aug_Return

Init ==
    /\ cache = NoEntries
    /\ tb = TbIdle
    /\ tev = <<>>
    /\ fs \in [DataDirs -> {NoDir, EmptyDir}]
    /\ cfb = [c \in Callers |-> CfbIdle]
    /\ cev = [c \in Callers |-> <<>>]
    /\ handles = {}
    /\ hist = NoHistory
    /\ aug = AugIdle

\* CacheFullBlock calls alone
SpecCFB == Init /\ [][NextCFB]_vars

\* TransformationBlock calls alone
SpecTB == Init /\ [][NextTB]_vars

\* the augmentation compositions alone
SpecAug == Init /\ [][NextAug]_vars

\* TransformationBlock calls alone, with failing cache operations
SpecTBFail == Init /\ [][NextTBFail]_vars

\* both kinds of call, one call at a time in any sequence, on chunked
\* arrays: TransformationBlock with ChunkedArgs on one input payload
\* (custom_transform still returns any payload), CacheFullBlock on the
\* plain inputs
Next ==
    \/ \E b \in Blocks : \E d \in {0} : \E ca \in ChunkedArgs :
           CfbQuiet /\ TB_Call(b, d, ca)
    \/ TB_Step
    \/ \E X \in PlainInputs : \E p \in DataPaths :
           CfbQuiet /\ tb.pc = "idle" /\ CFB_Call("c1", X, p)
    \/ CFB_Step

Spec == Init /\ [][Next]_vars

\* line 38 cut short: the process is killed while to_npy_stack is writing;
\* the frame is gone and the files written so far stay
CFB_Interrupt(c) ==
    /\ cfb[c].pc \in {"l38", "l38w"}
    /\ cfb' = [cfb EXCEPT ![c] = CfbIdle]
    /\ cev' = [cev EXCEPT ![c] = <<>>]
    /\ UNCHANGED <<cache, tb, tev, fs, handles, hist, aug>>

\* calls made one after another by one caller on the plain inputs, any of
\* which may be killed during its write
NextCrash ==
    \/ \E X \in PlainInputs : \E p \in DataPaths :
           CfbQuiet /\ CFB_Call("c1", X, p)
    \/ CFB_Step
    \/ CFB_Interrupt("c1")

SpecCrash == Init /\ [][NextCrash]_vars

\* the plain inputs that are a single row
RowInputs == { X \in PlainInputs : Len(X.data) = 1 }

\* CacheFullBlock calls by two callers whose statements interleave, on the
\* single-row inputs
NextRace ==
    \/ \E c \in Callers : \E X \in RowInputs : \E p \in DataPaths :
           CFB_Call(c, X, p)
    \/ CFB_Step

SpecRace == Init /\ [][NextRace]_vars

----------------------------------------------------------------------------
(* Properties of TransformationBlock.transform *)

\* the call in progress asked for caching and its existence check said yes
TbHit == tev # <<>> /\ tev[1].op = "exists" /\ tev[1].found

\* the call in progress asked for caching and its existence check said no
TbMiss == tev # <<>> /\ tev[1].op = "exists" /\ ~tev[1].found

TbOps == [i \in 1..Len(tev) |-> tev[i].op]

IsPrefix(s, u) == Len(s) <= Len(u) /\ s = SubSeq(u, 1, Len(s))

\* C1: cache short-circuit.  In a call with non-empty cache_args whose
\* existence check answered true, custom_transform is never invoked and
\* nothing is stored (the cache is as it was at entry), and the call
\* returns the artifact loaded from the cache at the checked location.
C1_ShortCircuit ==
    TbHit =>
        /\ tb.cache_args.nonempty
        /\ tb.pc \in {"l82", "done"}
        /\ IsPrefix(TbOps, <<"exists", "load">>)
        /\ cache = tb.cache0
        /\ tb.pc = "done" =>
              /\ TbOps = <<"exists", "load">>
              /\ tev[2].loc = tev[1].loc
              /\ tb.ret = tev[2].val
              /\ tb.ret = _get_cache(tb.cache0, get_hash(tb.block),
                                     tb.cache_args)

\* a call that hit the cache has returned
C1_Witness == TbHit /\ tb.pc = "done" /\ tb.ret.val # tb.data.val

\* C2: cache miss ordering.  In a call with non-empty cache_args whose
\* existence check answered false, the operations are, in this order, the
\* existence check, one custom_transform, one store of exactly the value
\* custom_transform returned at the location that was checked; transform
\* returns only after the store.
C2_MissOrdering ==
    TbMiss =>
        /\ tb.cache_args.nonempty
        /\ IsPrefix(TbOps, <<"exists", "custom", "store">>)
        /\ Len(tev) = 3 =>
              /\ tev[3].val = tev[2].val
              /\ tev[3].loc = tev[1].loc
              /\ tev[1].loc = Loc(get_hash(tb.block), tb.cache_args)
              /\ cache = _store_cache(tb.cache0, get_hash(tb.block),
                                      tev[2].val, tb.cache_args)
        /\ Len(tev) < 3 => cache = tb.cache0
        /\ tb.pc \in {"l90", "done"} <=> Len(tev) = 3
        /\ tb.pc = "l86" <=> Len(tev) = 2
        /\ tb.pc = "l84" <=> Len(tev) = 1

\* a call that missed has returned a result that differs from its input
C2_Witness ==
    TbMiss /\ tb.pc = "done" /\ tev[2].val.val # 0 /\ tb.cache0 # NoEntries

\* the call in progress asked for caching without a usable storage path
TbBadConfig ==
    tb.pc # "idle" /\ tb.cache_args.nonempty /\ BadPath(tb.cache_args)

TbChunkedMissDone ==
    /\ TbMiss
    /\ tb.pc = "done"
    /\ tb.cache_args.output_data_type = "dask_array"

TbNoCaching == tb.pc # "idle" /\ ~tb.cache_args.nonempty

\* C9: no caching requested means no cache traffic.  A call with empty
\* cache_args performs no existence check, no load and no store, invokes
\* custom_transform exactly once, returns its result, and leaves the cache
\* as it was.
C9_NoCacheTraffic ==
    TbNoCaching =>
        /\ IsPrefix(TbOps, <<"custom">>)
        /\ cache = tb.cache0
        /\ tb.pc \in {"l79", "l84", "l86", "l90", "done"}
        /\ tb.pc \in {"l86", "l90", "done"} <=> Len(tev) = 1
        /\ tb.pc = "done" => tb.ret = tev[1].val

\* an uncached call has returned while its block has an entry in the cache
C9_Witness ==
    /\ TbNoCaching
    /\ tb.pc = "done"
    /\ \E l \in Locations : l[1] = get_hash(tb.block) /\ cache[l] # <<>>

----------------------------------------------------------------------------
(* Properties of CacheFullBlock.transform *)

DirOf(c) == cfb[c].data_path[1]

\* caller c is in a call on a block whose data_path is empty or unset
CfbBadPath(c) == cfb[c].pc # "idle" /\ Falsy(cfb[c].data_path)

\* C4: fail-fast configuration in the chunked cache block.  A call with
\* an empty or unset data_path raises CachePipelineError before the
\* existence check, before any directory is created and before anything
\* is written: the directory tree is as it was at entry.
C4_FailFastPath ==
    \A c \in Callers :
        CfbBadPath(c) =>
            /\ cfb[c].pc \in {"l25", "raised"}
            /\ cfb[c].pc = "raised" => cfb[c].err = "CachePipelineError"
            /\ cev[c] = <<>>
            /\ fs = cfb[c].fs0
            /\ cfb[c].ret = NoHandle

\* such a call has failed while a stored array exists elsewhere
C4_Witness ==
    \E c \in Callers :
        /\ CfbBadPath(c)
        /\ cfb[c].pc = "raised"
        /\ \E d \in DataDirs : Complete(fs[d])

\* caller c is in a call that found a complete chunk stack at data_path
CfbEntryExisted(c) ==
    /\ cfb[c].pc # "idle"
    /\ ~Falsy(cfb[c].data_path)
    /\ Complete(cfb[c].fs0[DirOf(c)])

\* C6: idempotent re-run.  A call that finds a complete chunk stack at
\* data_path writes no chunk and no info file and creates no directory
\* (the directory tree stays as it was at entry), and returns a handle
\* that reads the chunks that were already there.
C6_IdempotentRerun ==
    \A c \in Callers :
        CfbEntryExisted(c) =>
            /\ cfb[c].pc \in {"l25", "l29", "l32", "done"}
            /\ IsPrefix(cev[c], <<"exists_check">>)
            /\ fs = cfb[c].fs0
            /\ cfb[c].pc = "done" =>
                  /\ cfb[c].ret = from_npy_stack(cfb[c].fs0, DirOf(c))
                  /\ Eval(fs, cfb[c].ret) =
                        ConcatFiles(cfb[c].fs0[DirOf(c)].files,
                                    Len(cfb[c].fs0[DirOf(c)].info[1]))

\* a second call with the arguments of the call that stored the array
C6_Witness ==
    \E c \in Callers :
        /\ CfbEntryExisted(c)
        /\ cfb[c].pc = "done"
        /\ cfb[c].arg.kind = "mem"
        /\ Eval(fs, cfb[c].ret) = cfb[c].arg.data
        /\ cfb[c].ret.chunks = StackChunks(cfb[c].arg)

\* C7: graph bound.  Whatever the depth of the graph of the input, the
\* handle a successful call returns (on the already-exists branch and on
\* the write branch) has a graph of depth 1 whose only layer reads the
\* chunk files at data_path; so every handle held after any number of
\* chained calls has depth 1.
C7_GraphBound ==
    /\ \A c \in Callers :
          cfb[c].pc = "done" =>
              /\ cfb[c].ret.kind = "read"
              /\ cfb[c].ret.depth = 1
              /\ cfb[c].ret.ops = 0
              /\ cfb[c].ret.path = DirOf(c)
    /\ \A h \in handles : h.kind = "read" /\ h.depth = 1

\* a chained call (its input is built on a handle an earlier call
\* returned) has written its chunks and returned
C7_Witness ==
    \E c \in Callers :
        /\ cfb[c].pc = "done"
        /\ cfb[c].arg.kind = "read"
        /\ cfb[c].arg.depth > 1
        /\ cfb[c].array = NoHandle

\* caller c found no stored array, wrote one, and has returned
CfbWroteDone(c) == cfb[c].pc = "done" /\ cfb[c].array = NoHandle

NumFiles(e) == Cardinality({ i \in 1..MaxRows : e.files[i] # <<>> })

NumChunks(X) == Len(X.chunks[1]) * Len(X.chunks[2])

\* C8 as stated: after a write, data_path exists and holds one file per
\* chunk of X, and the returned handle evaluates to X's data with X's
\* chunk boundaries.
C8_RoundTripPerChunk ==
    \A c \in Callers :
        CfbWroteDone(c) =>
            /\ PathExists(fs, DirOf(c))
            /\ NumFiles(fs[DirOf(c)]) = NumChunks(cfb[c].arg)
            /\ Eval(fs, cfb[c].ret) = Eval(fs, cfb[c].arg)
            /\ cfb[c].ret.chunks = cfb[c].arg.chunks

\* C8 as amended: after a write, data_path exists and holds one file per
\* chunk of X along axis 0, each with all the columns of its rows (X is
\* rechunked so that only axis 0 stays partitioned); the returned handle
\* evaluates to data equal element-wise to X, with X's chunk boundaries
\* along axis 0 and a single chunk along the other axis.
C8_RoundTripAxis0 ==
    \A c \in Callers :
        CfbWroteDone(c) =>
            LET e == fs[DirOf(c)]
                X == cfb[c].arg
                rc == X.chunks[1] IN
            /\ PathExists(fs, DirOf(c))
            /\ e.info = StackChunks(X)
            /\ \A i \in 1..Len(rc) :
                  e.files[i] = ChunkRows(Eval(fs, X), rc, i)
            /\ cfb[c].fs0[DirOf(c)].files = NoFiles =>
                  NumFiles(e) = Len(rc)
            /\ Eval(fs, cfb[c].ret) = Eval(fs, X)
            /\ cfb[c].ret.chunks[1] = rc
            /\ cfb[c].ret.chunks[2] = <<SumSeq(X.chunks[2])>>

\* an array partitioned along both axes has been written and returned
C8_Witness ==
    \E c \in Callers :
        /\ CfbWroteDone(c)
        /\ Len(cfb[c].arg.chunks[1]) > 1
        /\ Len(cfb[c].arg.chunks[2]) > 1

----------------------------------------------------------------------------
(* Properties of both kinds of call *)

\* C10: write-once cache entries.  No step of any call changes or removes
\* an entry of the key/value cache once it is present, nor a chunk stack
\* once it is complete.
C10_WriteOnce ==
    [][ /\ \A l \in Locations : cache[l] # <<>> => cache'[l] = cache[l]
        /\ \A d \in DataDirs : Complete(fs[d]) => fs'[d] = fs[d] ]_vars

\* later calls of both kinds have run over existing entries: a
\* TransformationBlock call hit an entry while a CacheFullBlock stack,
\* already returned once, is complete
C10_Witness ==
    /\ TbHit
    /\ tb.pc = "done"
    /\ \E h \in handles : Complete(fs[h.path])

----------------------------------------------------------------------------
(* Properties of TransformationBlock.transform over failures and over *)
(* sequences of calls *)

TbFailed(op) == \E i \in 1..Len(tev) : tev[i].op = op

\* a call with usable cache_args is in progress
TbCached ==
    tb.pc # "idle" /\ tb.cache_args.nonempty /\ ~BadPath(tb.cache_args)

\* the location given by the step's hash and the cache_args of the call
TbLoc == Loc(get_hash(tb.block), tb.cache_args)

\* C14: the cache decision is independent of the input payload.  For any
\* input data, the key is the one given by the step and cache_args, the
\* hit/miss decision is whether the cache held an entry at that key when
\* the call was entered, and on a hit the call returns that entry without
\* invoking custom_transform: the artifact stored by the call that made
\* the store, whatever the input of that call was.
C14_PayloadIndependent ==
    (TbCached /\ tb.pc # "l79") =>
        /\ tev[1].op = "exists"
        /\ tev[1].loc = TbLoc
        /\ tev[1].found = (tb.cache0[TbLoc] # <<>>)
        /\ (TbHit /\ tb.pc = "done") =>
              /\ tb.ret = _get_cache(tb.cache0, get_hash(tb.block),
                                     tb.cache_args)
              /\ tb.ret.val = tb.cache0[TbLoc][1]
              /\ ~TbFailed("custom")
              /\ hist[TbLoc].store = 1
              /\ hist[TbLoc].input # <<>>

\* a call with input B has returned the artifact stored by a call whose
\* input was a different A
C14_Witness ==
    /\ TbCached
    /\ TbHit
    /\ tb.pc = "done"
    /\ hist[TbLoc].input # <<>>
    /\ hist[TbLoc].input[1] # tb.arg.val
    /\ tb.data = tb.arg

\* C13: errors are never swallowed into recomputation.  When the load
\* fails after the existence check answered true, the call ends with the
\* error and custom_transform was not invoked; when the store fails after
\* custom_transform, the call ends with the error and returns nothing;
\* in no call is an operation made twice.
C13_ErrorsPropagate ==
    /\ TbFailed("load_failed") =>
          /\ tb.pc = "raised"
          /\ tb.err = "StorageIOError"
          /\ TbHit
          /\ TbOps = <<"exists", "load_failed">>
          /\ tb.ret = NoArtifact
          /\ cache = tb.cache0
    /\ TbFailed("store_failed") =>
          /\ tb.pc = "raised"
          /\ tb.err = "StorageIOError"
          /\ TbOps = <<"exists", "custom", "store_failed">>
          /\ tb.ret = NoArtifact
          /\ cache = tb.cache0
    /\ \A i, j \in 1..Len(tev) : tev[i].op = tev[j].op => i = j
    /\ ~(TbFailed("load_failed") /\ TbFailed("load"))
    /\ ~(TbFailed("store_failed") /\ TbFailed("store"))

\* a load has failed at a location where, in an earlier call, a store had
\* failed
C13_Witness ==
    /\ TbFailed("load_failed")
    /\ tb.pc = "raised"
    /\ hist[tev[1].loc].custom > hist[tev[1].loc].store

\* C15: compute at most once.  Starting from an empty cache, when every
\* cache operation succeeds, over all the calls keyed at one location
\* custom_transform is invoked exactly once and the store is made exactly
\* once, both by the first call (the one that found no entry); every
\* later call finds the entry, is a hit, and returns the stored artifact.
C15_ComputeOnce ==
    \A l \in Locations :
        /\ hist[l].custom <= 1
        /\ hist[l].store <= 1
        /\ (cache[l] # <<>>) <=> (hist[l].store = 1)
        /\ hist[l].store = 1 => hist[l].custom = 1
        /\ (hist[l].custom = 1 /\ hist[l].store = 0) =>
              (TbCached /\ TbLoc = l /\ tb.pc = "l86")
        /\ (TbCached /\ TbLoc = l /\ tb.pc # "l79") =>
              /\ tb.cache0[l] = <<>> =>
                    /\ TbMiss
                    /\ tb.pc \in {"l90", "done"} =>
                          (hist[l].custom = 1 /\ hist[l].store = 1)
              /\ tb.cache0[l] # <<>> =>
                    /\ TbHit
                    /\ cache = tb.cache0
                    /\ tb.pc = "done" =>
                          tb.ret = _get_cache(cache, get_hash(tb.block),
                                              tb.cache_args)

\* a later call with the input of the first call has hit the entry, at
\* the second location that was filled
C15_Witness ==
    /\ TbCached
    /\ TbHit
    /\ tb.pc = "done"
    /\ hist[TbLoc].custom = 1
    /\ hist[TbLoc].store = 1
    /\ hist[TbLoc].input = <<tb.arg.val>>
    /\ \E l \in Locations \ {TbLoc} : hist[l].store = 1

----------------------------------------------------------------------------
(* Properties of interleaved and interrupted CacheFullBlock.transform calls *)

\* c found the directory absent at line 36 while the other caller, working
\* on the same data_path, was also between its test and line 38
Raced(c) ==
    /\ cfb[c].mk
    /\ \E o \in Callers \ {c} :
           /\ cfb[o].mk
           /\ cfb[o].data_path = cfb[c].data_path

\* C11: when two interleaved calls target the same absent data_path and one
\* creates the directory between the other's existence test and its
\* directory creation, neither call fails with an "already exists" error
C11_RaceTolerated ==
    \A c \in Callers : Raced(c) => cfb[c].err # "FileExistsError"

\* what one uninterrupted da.to_npy_stack of X leaves at a directory: the
\* info file of X and, under every name it announces, that chunk of X
WrittenEntry(e, X) ==
    /\ e.dir
    /\ e.info = StackChunks(X)
    /\ \A i \in 1..Len(e.info[1]) :
           e.files[i] = ChunkRows(Eval(NoTree, X), e.info[1], i)

\* C12: existence means completeness.  The existence check yields a stored
\* array only if a complete, previously written entry is present at
\* data_path: after a write that was interrupted before all its chunks
\* were written, a later call does not take the already-exists branch and
\* does not return a handle that reads what the interrupted write left.
C12_ExistenceMeansCompleteness ==
    \A c \in Callers :
        cfb[c].array # NoHandle =>
            \E X \in PlainInputs : WrittenEntry(cfb[c].fs0[DirOf(c)], X)

----------------------------------------------------------------------------
(* Properties of CustomApplyOne and CustomSequential *)

\* the applications a list makes when each entry is applied once, in order
InOrder(s, how) == [k \in 1..Len(s) |-> Application(s[k], how)]

\* the names of the transforms of a log of applications
NamesOf(log) == [k \in 1..Len(log) |-> log[k].t.name]

\* C16: CustomApplyOne applies a single augmentation per call.  A call
\* that returns has selected one entry of all_transforms (x_transforms
\* followed by xy_transforms) whose weight is not 0 and has applied that
\* entry exactly once and nothing else: as x = t(x) if the entry came from
\* x_transforms, as (x, y) = t(x, y) if it came from xy_transforms.
C16_AppliesOne ==
    (aug.cls = "one" /\ aug.pc = "done") =>
        LET k == aug.idx
            t == aug.all_transforms[k]
            how == IF k <= Len(Items(aug.x_transforms)) THEN "x" ELSE "xy" IN
        /\ k \in 1..Len(aug.all_transforms)
        /\ aug.all_transforms =
              Items(aug.x_transforms) \o Items(aug.xy_transforms)
        /\ t.p # 0
        /\ aug.applied = <<Application(t, how)>>
        /\ aug.ret = <<<<t.name>>, IF how = "xy" THEN <<t.name>> ELSE <<>>>>

\* the sequence of applications a CustomSequential call makes in all
What(xs, xys) ==
    (IF IsNone(xs) THEN <<>> ELSE InOrder(Items(xs), "x")) \o
    (IF IsNone(xys) THEN <<>> ELSE InOrder(Items(xys), "xy"))

\* the names of the entries applied as (x, y) = t(x, y)
ChangedY(log) == NamesOf(SelectSeq(log, LAMBDA a : a.how = "xy"))

\* C17: CustomSequential applies every transform exactly once per call in
\* a fixed order.  At every point of a call the applications made so far
\* are a prefix of: the entries of x_transforms in list order, each as
\* x = t(x), then the entries of xy_transforms in list order, each as
\* (x, y) = t(x, y); y is changed by the entries of xy_transforms only;
\* the call returns when all of them are made, and with both lists empty
\* it returns (x, y) unchanged.
C17_SequentialOrder ==
    aug.cls = "seq" =>
        /\ IsPrefix(aug.applied, What(aug.x_transforms, aug.xy_transforms))
        /\ aug.x = NamesOf(aug.applied)
        /\ aug.y = ChangedY(aug.applied)
        /\ aug.pc = "done" =>
              /\ aug.applied = What(aug.x_transforms, aug.xy_transforms)
              /\ aug.ret = <<aug.x, aug.y>>
              /\ What(aug.x_transforms, aug.xy_transforms) = <<>> =>
                    aug.ret = <<<<>>, <<>>>>

\* a call with two different x_transforms and two different xy_transforms
\* has returned
C17_Witness ==
    /\ aug.cls = "seq"
    /\ aug.pc = "done"
    /\ ~IsNone(aug.x_transforms) /\ ~IsNone(aug.xy_transforms)
    /\ Len(Items(aug.x_transforms)) >= 2
    /\ Len(Items(aug.xy_transforms)) >= 2
    /\ Items(aug.x_transforms)[1] # Items(aug.x_transforms)[2]
    /\ Items(aug.xy_transforms)[1] # Items(aug.xy_transforms)[2]
    /\ Len(aug.applied) >= 4

====
